---- MODULE Spec2Model ----
(***************************************************************************)
(* The commit log of event_source: the sqlite store (src/store/sqlite.rs), *)
(* the client session (src/client.rs) and the dispatcher                   *)
(* (src/dispatch.rs).                                                      *)
(*                                                                         *)
(* A row of the commits table is a record of its key columns.  The         *)
(* commit_timestamp and metadata columns are written and read back         *)
(* verbatim and take part in no condition of the code; they are left out.  *)
(* The events blob is kept by its length, events_count.                    *)
(***************************************************************************)
EXTENDS Integers, Sequences, FiniteSets, TLC

\* ------------------------------------------------------------------ bounds
\* The most commits the table is let to hold.
MaxCommits == 3
\* The most events one command produces.
MaxEvents == 1
\* A session's replay stops once its aggregate has reached this version.
MaxClientVersion == 2

AggregateIds == {"U1", "U2"}
\* The websocket connections and the aggregate in the path each one opens.
Sockets == {"w1", "w2", "w3"}
SocketAggregate == [w \in Sockets |-> IF w = "w3" THEN "U2" ELSE "U1"]
\* The most messages enqueued on one subscriber's channel.
MaxOutbound == 2
\* The threads that run Dispatcher::dispatch over one store at a time.
Workers == {"d1", "d2"}
CommitIds == {"A", "B", "C"}
Versions == {0, 1}
\* Two sequence numbers with a hole between them.
SequenceNumbers == {0, 2}
\* The ends of the ranges asked of get_range.
RangeEnds == {0, 1}
EventsCounts == {1}
Clients == {"s1", "s2", "s3"}
\* The most events one command of a replaying session produces, and the
\* version at which the replay of such a session stops.
MaxReplayEvents == 2
MaxReplayVersion == 7
\* Stands for i64::max_value(): above every value a column takes here.
I64Max == MaxReplayVersion + MaxClientVersion + MaxCommits + 1

\* rows: the commits table.  sqlite_sequence: the largest rowid it ever held.
\* client: each session's aggregate and watermark.  result: what the last
\* call returned.  Of the most recent run of Dispatcher::dispatch, delivered
\* is the commit ids handed to the delegate and accepted those the delegate
\* returned Ok for, in order.  marked is the commit ids of durable commits
\* for which mark_commit_as_dispatched has returned Ok.  calls is the store
\* methods the last session operation or drain called, in order.
VARIABLES rows, sqlite_sequence, client, delivered, result, accepted, marked, calls

\* The subscription hub of the server.  aggregate_map is the CHashMap of
\* aggregate ids to inner maps of subscriber ids to channel senders: present
\* tells whether the outer map has an entry for the aggregate, and inner holds
\* one pair of a subscriber id and the websocket its sender feeds per key.
\* SUBSCRIBER_ID is the static counter.  socket is, per websocket connection,
\* the position of its subscribe call (pc), the id it drew, whether the
\* receiver of its channel is still alive (rx_open) and the messages enqueued
\* on its channel (outbound).
VARIABLES aggregate_map, SUBSCRIBER_ID, socket

hub == <<aggregate_map, SUBSCRIBER_ID, socket>>

\* items is the DynamoDB table of the key/range store: the items put so far.
\* builder is a ClientBuilder: each field is empty (None) or holds the one
\* value it was given.  worker is, per thread that serves commit requests over
\* the shared store with a client of its own: its position in the request
\* (pc), the client of the request (session), the commits of the snapshot of
\* its drain it has not finished with (snapshot) and the commit ids it has
\* handed to its delegate so far, in order (offered).
VARIABLES items, builder, worker

vars == <<rows, sqlite_sequence, client, delivered, result, accepted, marked, calls,
          aggregate_map, SUBSCRIBER_ID, socket, items, builder, worker>>

\* ------------------------------------------------------------------ commit.rs
CommitAttempt == [aggregate_id : AggregateIds, aggregate_version : Versions,
                  commit_id : CommitIds, commit_sequence : SequenceNumbers,
                  events_count : EventsCounts]

Commit(a, n, d) ==
  [aggregate_id |-> a.aggregate_id, aggregate_version |-> a.aggregate_version,
   commit_id |-> a.commit_id, commit_sequence |-> a.commit_sequence,
   commit_number |-> n, events_count |-> a.events_count, dispatched |-> d]

\* ------------------------------------------------------------------ sqlite.rs
\* The three unique indexes of the schema, by the message sqlite gives when
\* an insert breaks them.
SequenceIdxMsg == "UNIQUE constraint failed: commits.aggregate_id, commits.commit_sequence"
AggregateIdxMsg == "UNIQUE constraint failed: commits.aggregate_id, commits.aggregate_version"
CommitIdIdxMsg == "UNIQUE constraint failed: commits.commit_id"
IoMsg == "disk I/O error"

\* The schema without the index on commit_id.
UniqueViolationsNoCommitIdIdx(t, a) ==
  {m \in {SequenceIdxMsg, AggregateIdxMsg} :
     \E r \in t :
       \/ m = AggregateIdxMsg /\ r.aggregate_id = a.aggregate_id
                              /\ r.aggregate_version = a.aggregate_version
       \/ m = SequenceIdxMsg /\ r.aggregate_id = a.aggregate_id
                             /\ r.commit_sequence = a.commit_sequence}

\* The schema without the index on (aggregate_id, commit_sequence).
UniqueViolationsNoSequenceIdx(t, a) ==
  {m \in {AggregateIdxMsg, CommitIdIdxMsg} :
     \E r \in t :
       \/ m = CommitIdIdxMsg /\ r.commit_id = a.commit_id
       \/ m = AggregateIdxMsg /\ r.aggregate_id = a.aggregate_id
                              /\ r.aggregate_version = a.aggregate_version}

\* The schema without the index on (aggregate_id, aggregate_version).
UniqueViolationsNoAggregateIdx(t, a) ==
  {m \in {SequenceIdxMsg, CommitIdIdxMsg} :
     \E r \in t :
       \/ m = CommitIdIdxMsg /\ r.commit_id = a.commit_id
       \/ m = SequenceIdxMsg /\ r.aggregate_id = a.aggregate_id
                             /\ r.commit_sequence = a.commit_sequence}

\* The schema with the index on commit_id alone.
UniqueViolationsCommitIdIdxOnly(t, a) ==
  {m \in {CommitIdIdxMsg} : \E r \in t : r.commit_id = a.commit_id}

UniqueViolations(t, a) ==
  {m \in {SequenceIdxMsg, AggregateIdxMsg, CommitIdIdxMsg} :
     \E r \in t :
       \/ m = CommitIdIdxMsg /\ r.commit_id = a.commit_id
       \/ m = AggregateIdxMsg /\ r.aggregate_id = a.aggregate_id
                              /\ r.aggregate_version = a.aggregate_version
       \/ m = SequenceIdxMsg /\ r.aggregate_id = a.aggregate_id
                             /\ r.commit_sequence = a.commit_sequence}

\* Messages of rusqlite's SqliteFailure causes; every other cause is another
\* variant of rusqlite's error.
NoRowsMsg == "Query returned no rows"
SqliteFailureMsgs == {SequenceIdxMsg, AggregateIdxMsg, CommitIdIdxMsg, IoMsg}

\* error_type with the first two arms' results exchanged.
ErrorTypeArmsSwapped(msg) ==
  IF msg = SequenceIdxMsg THEN "DuplicateWriteError(AggregateVersionConflict)"
  ELSE IF msg = AggregateIdxMsg THEN "DuplicateWriteError(CommitSequenceConflict)"
  ELSE IF msg = CommitIdIdxMsg THEN "DuplicateWriteError(CommitIdConflict)"
  ELSE IF msg \in SqliteFailureMsgs THEN "panic"
  ELSE "UnknownError"

ErrorType(msg) ==
  IF msg = SequenceIdxMsg THEN "DuplicateWriteError(CommitSequenceConflict)"
  ELSE IF msg = AggregateIdxMsg THEN "DuplicateWriteError(AggregateVersionConflict)"
  ELSE IF msg = CommitIdIdxMsg THEN "DuplicateWriteError(CommitIdConflict)"
  ELSE IF msg \in SqliteFailureMsgs THEN "panic"
  ELSE "UnknownError"

\* A rowid that stops growing after the first row.
NextRowidStuck(seq) == IF seq = 0 THEN 1 ELSE seq

\* AUTOINCREMENT: one more than the largest rowid the table ever held.
NextRowid(seq) == seq + 1

\* A dispatched column whose DEFAULT is 1.
InsertedRowDefaultOne(a, n) == Commit(a, n, TRUE)

\* The row an INSERT of the attempt makes; dispatched takes its DEFAULT 0.
InsertedRow(a, n) == Commit(a, n, FALSE)

Range(f) == {f[i] : i \in DOMAIN f}

\* What a call returned.  arg is the argument of the call; for an append that
\* a unique index rejected it is the set of the attempt's keys that a durable
\* commit already held (TakenKeys), kept for the record.
Ok(op, arg, v) == [op |-> op, arg |-> arg, ok |-> TRUE, value |-> v, error |-> "none"]
Err(op, arg, msg) == [op |-> op, arg |-> arg, ok |-> FALSE, value |-> 0, error |-> msg]

\* The arg of a call that takes no argument.
NoArg == [none |-> TRUE]

TakenKeys(t, a) ==
  {k \in {"commit_id", "commit_sequence", "aggregate_version"} :
     \E r \in t :
       \/ k = "commit_id" /\ r.commit_id = a.commit_id
       \/ k = "commit_sequence" /\ r.aggregate_id = a.aggregate_id
                                /\ r.commit_sequence = a.commit_sequence
       \/ k = "aggregate_version" /\ r.aggregate_id = a.aggregate_id
                                  /\ r.aggregate_version = a.aggregate_version}

\* SqliteStore::commit: the outcomes of one INSERT on table t with
\* sqlite_sequence seq.  The statement either inserts the row or, when a
\* unique index or the storage fails, leaves the table as it was.
StoreCommit(t, seq, a) ==
  {[rows |-> t \cup {InsertedRow(a, NextRowid(seq))}, seq |-> NextRowid(seq),
    res |-> Ok("commit", a, NextRowid(seq))] : x \in {y \in {1} : UniqueViolations(t, a) = {}}}
  \cup {[rows |-> t, seq |-> seq, res |-> Err("commit", TakenKeys(t, a), m)] :
          m \in UniqueViolations(t, a)}
  \cup {[rows |-> t, seq |-> seq, res |-> Err("commit", {}, IoMsg)]}

\* All orders of a set of rows, as sequences.
Perms(S) ==
  {f \in [1..Cardinality(S) -> S] : \A i, j \in 1..Cardinality(S) : i # j => f[i] # f[j]}

\* WHERE aggregate_version >= ? AND aggregate_version <= ? AND aggregate_id = ?
GetRangeRows(t, id, min_version, max_version) ==
  {r \in t : /\ r.aggregate_version >= min_version
             /\ r.aggregate_version <= max_version
             /\ r.aggregate_id = id}

\* The SELECT of get_range has no ORDER BY: the rows come in an order the
\* query planner is free to choose.
GetRange(t, id, min_version, max_version) ==
  Perms(GetRangeRows(t, id, min_version, max_version))

\* WHERE dispatched = 0 AND aggregate_id = 'U1'
UndispatchedRowsOfOneAggregate(t) == {r \in t : r.dispatched = FALSE /\ r.aggregate_id = "U1"}

\* WHERE dispatched = 0 ORDER BY commit_number ASC
UndispatchedRows(t) == {r \in t : r.dispatched = FALSE}

\* ORDER BY commit_number DESC
OrderByCommitNumberDesc(S) ==
  CHOOSE f \in Perms(S) :
    \A i, j \in 1..Cardinality(S) : i < j => f[i].commit_number >= f[j].commit_number

OrderByCommitNumber(S) ==
  CHOOSE f \in Perms(S) :
    \A i, j \in 1..Cardinality(S) : i < j => f[i].commit_number <= f[j].commit_number

\* The SELECT without its WHERE dispatched = 0.
GetAllCommits(t) == OrderByCommitNumber(t)

GetUndispatchedCommits(t) == OrderByCommitNumber(UndispatchedRows(t))

\* An UPDATE whose WHERE matches no row.
MarkCommitAsDispatchedNoRow(t, id) == t

\* UPDATE commits SET dispatched = 1 - dispatched WHERE commit_id = ?
MarkCommitAsDispatchedToggle(t, id) ==
  {IF r.commit_id = id THEN [r EXCEPT !.dispatched = ~@] ELSE r : r \in t}

\* UPDATE commits SET dispatched = (commit_id = ?)
MarkCommitAsDispatchedOnly(t, id) ==
  {[r EXCEPT !.dispatched = (r.commit_id = id)] : r \in t}

\* UPDATE commits SET dispatched = 1 WHERE commit_id = ?
MarkCommitAsDispatched(t, id) ==
  {IF r.commit_id = id THEN [r EXCEPT !.dispatched = TRUE] ELSE r : r \in t}

\* SELECT ... WHERE commit_id = ?, query_row
GetCommit(t, id) ==
  IF \E r \in t : r.commit_id = id
    THEN Ok("get_commit", id, CHOOSE r \in t : r.commit_id = id)
    ELSE Err("get_commit", id, NoRowsMsg)

\* ---------------------------------------------------------- store operations
StoreAppend(a) ==
  /\ Cardinality(rows) < MaxCommits
  /\ \E o \in StoreCommit(rows, sqlite_sequence, a) :
       /\ rows' = o.rows
       /\ sqlite_sequence' = o.seq
       /\ result' = o.res
  /\ UNCHANGED <<client, delivered, accepted, marked, calls>>
  /\ UNCHANGED hub
  /\ UNCHANGED <<items, builder, worker>>

StoreGetRange(id, lo, hi) ==
  /\ \/ \E cs \in GetRange(rows, id, lo, hi) :
          result' = Ok("get_range", <<id, lo, hi>>, cs)
     \/ result' = Err("get_range", 0, IoMsg)
  /\ UNCHANGED <<rows, sqlite_sequence, client, delivered, accepted, marked, calls>>
  /\ UNCHANGED hub
  /\ UNCHANGED <<items, builder, worker>>

StoreGetUndispatched ==
  /\ \/ result' = Ok("get_undispatched_commits", 0, GetUndispatchedCommits(rows))
     \/ result' = Err("get_undispatched_commits", 0, IoMsg)
  /\ UNCHANGED <<rows, sqlite_sequence, client, delivered, accepted, marked, calls>>
  /\ UNCHANGED hub
  /\ UNCHANGED <<items, builder, worker>>

StoreMarkDispatched(id) ==
  /\ \/ /\ rows' = MarkCommitAsDispatched(rows, id)
        /\ marked' = marked \cup {r.commit_id : r \in {x \in rows : x.commit_id = id}}
        /\ result' = Ok("mark_commit_as_dispatched", id, 0)
     \/ /\ rows' = rows
        /\ marked' = marked
        /\ result' = Err("mark_commit_as_dispatched", 0, IoMsg)
  /\ UNCHANGED <<sqlite_sequence, client, delivered, accepted, calls>>
  /\ UNCHANGED hub
  /\ UNCHANGED <<items, builder, worker>>

StoreGetCommit(id) ==
  /\ \/ result' = GetCommit(rows, id)
     \/ result' = Err("get_commit", 0, IoMsg)
  /\ UNCHANGED <<rows, sqlite_sequence, client, delivered, accepted, marked, calls>>
  /\ UNCHANGED hub
  /\ UNCHANGED <<items, builder, worker>>

\* ------------------------------------------------------------------ dispatch.rs
\* The Err(String) of a delegate that rejects a commit.
DelegateMsg == "delegate refused"

\* A loop that marks the commit before it asks the delegate.
RECURSIVE DispatchLoopMarkFirst(_, _, _)
DispatchLoopMarkFirst(t, cs, log) ==
  IF cs = <<>>
    THEN {[rows |-> t, delivered |-> log, accepted |-> log, marks |-> log,
           res |-> Ok("dispatch", NoArg, 0)]}
    ELSE {[rows |-> MarkCommitAsDispatched(t, Head(cs).commit_id),
           delivered |-> Append(log, Head(cs).commit_id),
           accepted |-> log, marks |-> Append(log, Head(cs).commit_id),
           res |-> Err("dispatch", NoArg, DelegateMsg)],
          [rows |-> t, delivered |-> Append(log, Head(cs).commit_id),
           accepted |-> log, marks |-> log,
           res |-> Err("dispatch", NoArg, IoMsg)]}
         \cup DispatchLoopMarkFirst(MarkCommitAsDispatched(t, Head(cs).commit_id), Tail(cs),
                                    Append(log, Head(cs).commit_id))

\* A loop that, when the delegate refuses a commit, marks the commits that
\* come after it in the snapshot.
RECURSIVE DispatchLoopMarkRest(_, _, _)
DispatchLoopMarkRest(t, cs, log) ==
  IF cs = <<>>
    THEN {[rows |-> t, delivered |-> log, accepted |-> log, marks |-> log,
           res |-> Ok("dispatch", NoArg, 0)]}
    ELSE {[rows |-> {IF \E i \in DOMAIN Tail(cs) : Tail(cs)[i].commit_id = r.commit_id
                       THEN [r EXCEPT !.dispatched = TRUE] ELSE r : r \in t},
           delivered |-> Append(log, Head(cs).commit_id),
           accepted |-> log,
           marks |-> log \o [i \in DOMAIN Tail(cs) |-> Tail(cs)[i].commit_id],
           res |-> Err("dispatch", NoArg, DelegateMsg)],
          [rows |-> t, delivered |-> Append(log, Head(cs).commit_id),
           accepted |-> Append(log, Head(cs).commit_id), marks |-> log,
           res |-> Err("dispatch", NoArg, IoMsg)]}
         \cup DispatchLoopMarkRest(MarkCommitAsDispatched(t, Head(cs).commit_id), Tail(cs),
                                   Append(log, Head(cs).commit_id))

\* A loop that goes on to the next commit when a mark fails.
RECURSIVE DispatchLoopPastFailedMark(_, _, _)
DispatchLoopPastFailedMark(t, cs, log) ==
  IF cs = <<>>
    THEN {[rows |-> t, delivered |-> log, accepted |-> log,
           marks |-> SelectSeq(log, LAMBDA id : \E r \in t : r.commit_id = id /\ r.dispatched),
           res |-> Ok("dispatch", NoArg, 0)]}
    ELSE {[rows |-> t, delivered |-> Append(log, Head(cs).commit_id),
           accepted |-> log,
           marks |-> SelectSeq(log, LAMBDA id : \E r \in t : r.commit_id = id /\ r.dispatched),
           res |-> Err("dispatch", NoArg, DelegateMsg)]}
         \cup DispatchLoopPastFailedMark(t, Tail(cs), Append(log, Head(cs).commit_id))
         \cup DispatchLoopPastFailedMark(MarkCommitAsDispatched(t, Head(cs).commit_id),
                                         Tail(cs), Append(log, Head(cs).commit_id))

\* Dispatcher::dispatch from the first commit of the snapshot cs on: the
\* delegate refuses the commit, or accepts it and the mark fails, or accepts
\* it and the mark is made and the loop goes on.  log is the commit ids
\* handed to the delegate so far, each of them accepted and marked.
RECURSIVE DispatchLoop(_, _, _)
DispatchLoop(t, cs, log) ==
  IF cs = <<>>
    THEN {[rows |-> t, delivered |-> log, accepted |-> log, marks |-> log,
           res |-> Ok("dispatch", NoArg, 0)]}
    ELSE {[rows |-> t, delivered |-> Append(log, Head(cs).commit_id),
           accepted |-> log, marks |-> log,
           res |-> Err("dispatch", NoArg, DelegateMsg)],
          [rows |-> t, delivered |-> Append(log, Head(cs).commit_id),
           accepted |-> Append(log, Head(cs).commit_id), marks |-> log,
           res |-> Err("dispatch", NoArg, IoMsg)]}
         \cup DispatchLoop(MarkCommitAsDispatched(t, Head(cs).commit_id), Tail(cs),
                           Append(log, Head(cs).commit_id))

\* A dispatcher that goes through the snapshot from its end.
DispatchNewestFirst(t) ==
  {[rows |-> t, delivered |-> <<>>, accepted |-> <<>>, marks |-> <<>>,
    res |-> Err("dispatch", NoArg, IoMsg)]}
  \cup DispatchLoop(t, OrderByCommitNumberDesc(UndispatchedRows(t)), <<>>)

Dispatch(t) ==
  {[rows |-> t, delivered |-> <<>>, accepted |-> <<>>, marks |-> <<>>,
    res |-> Err("dispatch", NoArg, IoMsg)]}
  \cup DispatchLoop(t, GetUndispatchedCommits(t), <<>>)

\* The store methods one run of Dispatcher::dispatch called: the snapshot,
\* then one mark for each commit the delegate accepted.
DispatchCalls(d) ==
  <<"get_undispatched_commits">> \o [i \in 1..Len(d.accepted) |-> "mark_commit_as_dispatched"]

\* ------------------------------------------------------------------ client.rs
\* Aggregate::apply of the test aggregate: one more version per event.
Apply(agg) == [agg EXCEPT !.version = @ + 1]

RECURSIVE ApplyEvents(_, _)
ApplyEvents(agg, n) == IF n = 0 THEN agg ELSE ApplyEvents(Apply(agg), n - 1)

\* The loop of fetch_latest over the commits get_range returned.
RECURSIVE Replay(_, _)
Replay(cl, cs) ==
  IF cs = <<>>
    THEN cl
    ELSE Replay([aggregate |-> ApplyEvents(cl.aggregate, Head(cs).events_count),
                 commit_sequence |-> Head(cs).commit_sequence], Tail(cs))

\* Uuid::new_v4(): an id no commit bears yet.  The ids are interchangeable,
\* so one unused id stands for them all.
NewV4(t) ==
  IF CommitIds \ {r.commit_id : r \in t} = {}
    THEN {}
    ELSE {CHOOSE id \in CommitIds \ {r.commit_id : r \in t} : TRUE}

AttemptOf(cl, id, events_count) ==
  [aggregate_id |-> cl.aggregate.id, aggregate_version |-> cl.aggregate.version,
   commit_id |-> id, commit_sequence |-> cl.commit_sequence + 1,
   events_count |-> events_count]

\* fetch_latest of session c, taken while the replayed aggregate stays within
\* version cap.
FetchLatestWithin(c, cap) ==
  /\ \/ \E cs \in GetRange(rows, client[c].aggregate.id, client[c].commit_sequence, I64Max) :
          /\ Replay(client[c], cs).aggregate.version <= cap
          /\ client' = [client EXCEPT ![c] = Replay(client[c], cs)]
          /\ result' = Ok("fetch_latest", [session |-> c], Replay(client[c], cs).aggregate)
     \/ /\ client' = client
        /\ result' = Err("fetch_latest", [session |-> c], IoMsg)
  /\ calls' = <<"get_range">>
  /\ UNCHANGED <<rows, sqlite_sequence, delivered, accepted, marked>>
  /\ UNCHANGED hub
  /\ UNCHANGED <<items, builder, worker>>

FetchLatest(c) == FetchLatestWithin(c, MaxClientVersion)

\* The errors a command hands back when it refuses.
CommandErrors == {"CommandError(insufficient)", "CommandError(closed)"}

\* An issue_command that replays the session before it asks the command.
IssueCommandRefusedAfterReplay(c, e) ==
  /\ \E cs \in GetRange(rows, client[c].aggregate.id, client[c].commit_sequence, I64Max) :
       /\ Replay(client[c], cs).aggregate.version <= MaxClientVersion
       /\ client' = [client EXCEPT ![c] = Replay(client[c], cs)]
  /\ result' = Err("issue_command", [session |-> c, refusal |-> e], e)
  /\ calls' = <<"get_range">>
  /\ UNCHANGED <<rows, sqlite_sequence, delivered, accepted, marked>>
  /\ UNCHANGED hub
  /\ UNCHANGED <<items, builder, worker>>

\* issue_command when command.apply fails with e.
IssueCommandRefused(c, e) ==
  /\ result' = Err("issue_command", [session |-> c, refusal |-> e], e)
  /\ calls' = <<>>
  /\ UNCHANGED <<rows, sqlite_sequence, client, delivered, accepted, marked>>
  /\ UNCHANGED hub
  /\ UNCHANGED <<items, builder, worker>>

\* An issue_command that makes a rejected append a second time.
IssueCommandTwice(c, n) ==
  /\ Cardinality(rows) < MaxCommits
  /\ \E id \in NewV4(rows) :
     \E o \in StoreCommit(rows, sqlite_sequence, AttemptOf(client[c], id, n)) :
       /\ sqlite_sequence' = o.seq
       /\ IF o.res.ok
            THEN \E d \in Dispatch(o.rows) :
                   /\ rows' = d.rows
                   /\ delivered' = d.delivered
                   /\ accepted' = d.accepted
                   /\ marked' = marked \cup Range(d.marks)
                   /\ calls' = IF o.res.error = IoMsg THEN <<"commit">>
                                                        ELSE <<"commit", "commit">> \o DispatchCalls(d) \o <<"get_commit">>
                   /\ \/ result' = [GetCommit(d.rows, id) EXCEPT
                                      !.op = "issue_command",
                                      !.arg = [session |-> c,
                                               attempt |-> AttemptOf(client[c], id, n)]]
                      \/ result' = Err("issue_command",
                                        [session |-> c, attempt |-> AttemptOf(client[c], id, n)],
                                        IoMsg)
            ELSE /\ rows' = o.rows
                 /\ delivered' = delivered
                 /\ accepted' = accepted
                 /\ marked' = marked
                 /\ calls' = IF o.res.error = IoMsg THEN <<"commit">>
                                                        ELSE <<"commit", "commit">>
                 /\ result' = Err("issue_command",
                                   [session |-> c, attempt |-> AttemptOf(client[c], id, n)],
                                   o.res.error)
  /\ UNCHANGED client
  /\ UNCHANGED hub
  /\ UNCHANGED <<items, builder, worker>>

\* A Client::commit that returns the failure of the inline drain.
ClientCommitPropagating(t, seq, a) ==
  UNION {IF o.res.ok
           THEN {[rows |-> d.rows, seq |-> o.seq, delivered |-> d.delivered,
                  accepted |-> d.accepted, marks |-> d.marks,
                  calls |-> <<"commit">> \o DispatchCalls(d),
                  res |-> IF d.res.ok THEN o.res ELSE Err("commit", a, d.res.error)] :
                   d \in Dispatch(o.rows)}
           ELSE {[rows |-> o.rows, seq |-> o.seq, delivered |-> <<>>,
                  accepted |-> <<>>, marks |-> <<>>,
                  calls |-> <<"commit">>, res |-> o.res]} :
         o \in StoreCommit(t, seq, a)}

\* Client::commit: the outcomes of store.commit(attempt)? followed by
\* dispatcher.dispatch(store), whose result is bound to _unhandled_result and
\* dropped, and Ok(commit_number).  A rejected append returns before the drain.
ClientCommit(t, seq, a) ==
  UNION {IF o.res.ok
           THEN {[rows |-> d.rows, seq |-> o.seq, delivered |-> d.delivered,
                  accepted |-> d.accepted, marks |-> d.marks,
                  calls |-> <<"commit">> \o DispatchCalls(d), res |-> o.res] :
                   d \in Dispatch(o.rows)}
           ELSE {[rows |-> o.rows, seq |-> o.seq, delivered |-> <<>>,
                  accepted |-> <<>>, marks |-> <<>>,
                  calls |-> <<"commit">>, res |-> o.res]} :
         o \in StoreCommit(t, seq, a)}

\* client.commit(&attempt) called by the owner of the client, as the test
\* it_dispatches does.
ClientCommitCall(a) ==
  /\ Cardinality(rows) < MaxCommits
  /\ \E x \in ClientCommit(rows, sqlite_sequence, a) :
       /\ rows' = x.rows
       /\ sqlite_sequence' = x.seq
       /\ calls' = x.calls
       /\ IF x.res.ok
            THEN /\ delivered' = x.delivered
                 /\ accepted' = x.accepted
                 /\ marked' = marked \cup Range(x.marks)
                 /\ result' = Ok("client_commit", [attempt |-> a], x.res.value)
            ELSE /\ UNCHANGED <<delivered, accepted, marked>>
                 /\ result' = Err("client_commit", [attempt |-> a], x.res.error)
  /\ UNCHANGED client
  /\ UNCHANGED hub
  /\ UNCHANGED <<items, builder, worker>>

\* An issue_command that, when it succeeds, folds its events into the
\* session and moves the watermark on.
IssueCommandAdvancing(c, g, n) ==
  /\ Cardinality(rows) < MaxCommits
  /\ \E id \in NewV4(rows) :
     \E x \in ClientCommit(rows, sqlite_sequence, AttemptOf(client[c], id, n)) :
       /\ sqlite_sequence' = x.seq
       /\ rows' = x.rows
       /\ calls' = IF x.res.ok THEN x.calls \o <<"get_commit">> ELSE x.calls
       /\ IF x.res.ok
            THEN /\ client' = [client EXCEPT ![c] =
                                [aggregate |-> ApplyEvents(client[c].aggregate, n),
                                 commit_sequence |-> client[c].commit_sequence + 1]]
                 /\ delivered' = x.delivered
                 /\ accepted' = x.accepted
                 /\ marked' = marked \cup Range(x.marks)
                 /\ \/ result' = [GetCommit(x.rows, id) EXCEPT
                                      !.op = "issue_command",
                                      !.arg = [session |-> c, aggregate |-> g, events |-> n,
                                               attempt |-> AttemptOf(client[c], id, n)]]
                    \/ result' = Err("issue_command",
                                      [session |-> c, aggregate |-> g, events |-> n,
                                       attempt |-> AttemptOf(client[c], id, n)],
                                      IoMsg)
            ELSE /\ UNCHANGED <<client, delivered, accepted, marked>>
                 /\ result' = Err("issue_command",
                                   [session |-> c, aggregate |-> g, events |-> n,
                                    attempt |-> AttemptOf(client[c], id, n)],
                                   x.res.error)
  /\ UNCHANGED hub
  /\ UNCHANGED <<items, builder, worker>>

\* issue_command(aggregate, command, metadata) of session c when
\* command.apply(aggregate) gives n events for the aggregate g it is handed:
\* the attempt is stamped from self.aggregate and self.commit_sequence, then
\* Client::commit (the append, then the drain whose result is dropped), then
\* get_commit.
IssueCommandOn(c, g, n) ==
  /\ Cardinality(rows) < MaxCommits
  /\ \E id \in NewV4(rows) :
     \E x \in ClientCommit(rows, sqlite_sequence, AttemptOf(client[c], id, n)) :
       /\ sqlite_sequence' = x.seq
       /\ rows' = x.rows
       /\ calls' = IF x.res.ok THEN x.calls \o <<"get_commit">> ELSE x.calls
       /\ IF x.res.ok
            THEN /\ delivered' = x.delivered
                 /\ accepted' = x.accepted
                 /\ marked' = marked \cup Range(x.marks)
                 /\ \/ result' = [GetCommit(x.rows, id) EXCEPT
                                      !.op = "issue_command",
                                      !.arg = [session |-> c, aggregate |-> g, events |-> n,
                                               attempt |-> AttemptOf(client[c], id, n)]]
                    \/ result' = Err("issue_command",
                                      [session |-> c, aggregate |-> g, events |-> n,
                                       attempt |-> AttemptOf(client[c], id, n)],
                                      IoMsg)
            ELSE /\ UNCHANGED <<delivered, accepted, marked>>
                 /\ result' = Err("issue_command",
                                   [session |-> c, aggregate |-> g, events |-> n,
                                    attempt |-> AttemptOf(client[c], id, n)],
                                   x.res.error)
  /\ UNCHANGED client
  /\ UNCHANGED hub
  /\ UNCHANGED <<items, builder, worker>>

\* issue_command called with the aggregate the session's fetch_latest
\* returned, a clone of self.aggregate.
IssueCommand(c, n) == IssueCommandOn(c, client[c].aggregate, n)

\* dispatcher.dispatch(store) called on its own.
Drain ==
  /\ \E d \in Dispatch(rows) :
       /\ rows' = d.rows
       /\ delivered' = d.delivered
       /\ accepted' = d.accepted
       /\ marked' = marked \cup Range(d.marks)
       /\ calls' = DispatchCalls(d)
       /\ result' = d.res
  /\ UNCHANGED <<sqlite_sequence, client>>
  /\ UNCHANGED hub
  /\ UNCHANGED <<items, builder, worker>>

\* ----------------------------------------------------------- server/dispatch.rs
\* The message of unreachable!("No subscriber to contact!").
PanicMsg == "internal error: entered unreachable code: No subscriber to contact!"

\* The text message publish sends for a commit: the commit's derived form.
MessageOf(cm) ==
  [commit_id |-> cm.commit_id, aggregate_id |-> cm.aggregate_id,
   commit_sequence |-> cm.commit_sequence]

\* A fetch_add that leaves the counter where it was.
FetchAddStuck(n) == n

\* SUBSCRIBER_ID.fetch_add(1, Ordering::Relaxed): the counter after the call
\* (the call returns the counter before it).
FetchAdd(n) == n + 1

\* hash_map.insert(subscriber_id, tx): the sender takes the place of whatever
\* the key held.
Insert(inner, id, w) ==
  {p \in inner : p.id # id} \cup {[id |-> id, socket |-> w]}

\* subscriber_by_id.remove(&subscriber_id)
Remove(inner, id) == {p \in inner : p.id # id}

\* The websockets whose senders the inner map of aggregate a holds.
Subscribers(map, a) == {p.socket : p \in map[a].inner}

\* A publish that sends to the subscribers of every aggregate.
PublishToAll(map, socks, cm) ==
  IF ~map[cm.aggregate_id].present
    THEN [panic |-> TRUE, socket |-> socks, map |-> map]
    ELSE [panic |-> FALSE,
          socket |-> [w \in Sockets |->
                       IF (\E a \in AggregateIds : w \in Subscribers(map, a)) /\ socks[w].rx_open
                         THEN [socks[w] EXCEPT !.outbound = Append(@, MessageOf(cm))]
                         ELSE socks[w]],
          map |-> map]

\* WebSocketSubscriptions::publish.  With no entry for the commit's aggregate
\* in the outer map the match reaches unreachable!() and the thread panics.
\* Otherwise the inner map is cloned and each sender of the clone sends the
\* message (join_all collects the iterator, which runs every send): a send
\* enqueues the message when the receiver is alive and fails otherwise, and
\* the failure is logged and nothing else.  The map is not written.
Publish(map, socks, cm) ==
  IF ~map[cm.aggregate_id].present
    THEN [panic |-> TRUE, socket |-> socks, map |-> map]
    ELSE [panic |-> FALSE,
          socket |-> [w \in Sockets |->
                       IF w \in Subscribers(map, cm.aggregate_id) /\ socks[w].rx_open
                         THEN [socks[w] EXCEPT !.outbound = Append(@, MessageOf(cm))]
                         ELSE socks[w]],
          map |-> map]

\* The outbound channels stay within MaxOutbound.
WithinOutbound(socks) == \A w \in Sockets : Len(socks[w].outbound) <= MaxOutbound

\* subscribe, first step: the connection draws its subscriber id and creates
\* its channel.
SubscribeFetchAdd(w) ==
  /\ socket[w].pc = "new"
  /\ socket' = [socket EXCEPT ![w] = [pc |-> "assigned", subscriber_id |-> SUBSCRIBER_ID,
                                       rx_open |-> TRUE, outbound |-> <<>>]]
  /\ SUBSCRIBER_ID' = FetchAdd(SUBSCRIBER_ID)
  /\ result' = Ok("fetch_add", [socket |-> w], SUBSCRIBER_ID)
  /\ calls' = <<>>
  /\ UNCHANGED <<rows, sqlite_sequence, client, delivered, accepted, marked, aggregate_map>>
  /\ UNCHANGED <<items, builder, worker>>

\* subscribe, second step: state_handle.upsert(aggregate_id, ..) makes the
\* inner map with the sender when the aggregate has no entry and inserts the
\* sender into the inner map when it has one.
SubscribeUpsert(w) ==
  /\ socket[w].pc = "assigned"
  /\ aggregate_map' =
       [aggregate_map EXCEPT ![SocketAggregate[w]] =
          [present |-> TRUE, inner |-> Insert(@.inner, socket[w].subscriber_id, w)]]
  /\ socket' = [socket EXCEPT ![w].pc = "subscribed"]
  /\ result' = Ok("subscribe", [socket |-> w], socket[w].subscriber_id)
  /\ calls' = <<>>
  /\ UNCHANGED <<rows, sqlite_sequence, client, delivered, accepted, marked, SUBSCRIBER_ID>>
  /\ UNCHANGED <<items, builder, worker>>

\* The task forwarding the channel to the websocket ends on a websocket send
\* error, which it meets when it forwards a message: the receiver is dropped.
ForwardEnds(w) ==
  /\ socket[w].pc = "subscribed"
  /\ socket[w].rx_open
  /\ socket[w].outbound # <<>>
  /\ socket' = [socket EXCEPT ![w].rx_open = FALSE]
  /\ result' = Err("forward", [socket |-> w], "websocket send error")
  /\ calls' = <<>>
  /\ UNCHANGED <<rows, sqlite_sequence, client, delivered, accepted, marked,
                 aggregate_map, SUBSCRIBER_ID>>
  /\ UNCHANGED <<items, builder, worker>>

\* A disconnect that empties the inner map of the aggregate.
DisconnectAll(w) ==
  /\ socket[w].pc = "subscribed"
  /\ aggregate_map' = [aggregate_map EXCEPT ![SocketAggregate[w]].inner = {}]
  /\ socket' = [socket EXCEPT ![w] = [pc |-> "disconnected", subscriber_id |-> @.subscriber_id,
                                       rx_open |-> FALSE, outbound |-> <<>>]]
  /\ result' = Ok("disconnect", [socket |-> w], socket[w].subscriber_id)
  /\ calls' = <<>>
  /\ UNCHANGED <<rows, sqlite_sequence, client, delivered, accepted, marked, SUBSCRIBER_ID>>
  /\ UNCHANGED <<items, builder, worker>>

\* The read half of the websocket ends and subscribe's continuation calls
\* disconnect(aggregate_id, &state_handle, subscriber_id), which removes the
\* key from the inner map and keeps the outer entry.  The connection is over:
\* its channel goes with it.
Disconnect(w) ==
  /\ socket[w].pc = "subscribed"
  /\ aggregate_map' = [aggregate_map EXCEPT ![SocketAggregate[w]].inner =
                         Remove(@, socket[w].subscriber_id)]
  /\ socket' = [socket EXCEPT ![w] = [pc |-> "disconnected", subscriber_id |-> @.subscriber_id,
                                       rx_open |-> FALSE, outbound |-> <<>>]]
  /\ result' = Ok("disconnect", [socket |-> w], socket[w].subscriber_id)
  /\ calls' = <<>>
  /\ UNCHANGED <<rows, sqlite_sequence, client, delivered, accepted, marked, SUBSCRIBER_ID>>
  /\ UNCHANGED <<items, builder, worker>>

\* The commits handed to the hub's delegate directly: two of the aggregate of
\* w1 and w2 and one of the aggregate of w3.
PublishedCommits ==
  {Commit(a, 1, FALSE) :
     a \in {b \in CommitAttempt :
              /\ b.aggregate_version = 0 /\ b.commit_sequence = 0
              /\ b.aggregate_id = IF b.commit_id = "C" THEN "U2" ELSE "U1"}}

\* <WebSocketSubscriptions as DispatchDelegate>::dispatch(&commit): publish,
\* then Ok(()) unless publish panicked.
HubDispatch(cm) ==
  /\ WithinOutbound(Publish(aggregate_map, socket, cm).socket)
  /\ socket' = Publish(aggregate_map, socket, cm).socket
  /\ aggregate_map' = Publish(aggregate_map, socket, cm).map
  /\ result' = IF Publish(aggregate_map, socket, cm).panic
                 THEN Err("hub_dispatch", MessageOf(cm), PanicMsg)
                 ELSE Ok("hub_dispatch", MessageOf(cm), 0)
  /\ calls' = <<>>
  /\ UNCHANGED <<rows, sqlite_sequence, client, delivered, accepted, marked, SUBSCRIBER_ID>>
  /\ UNCHANGED <<items, builder, worker>>

\* ------------------------------------------- the hub as the dispatcher's delegate
\* Dispatcher::dispatch's loop with the hub as delegate: delegate.dispatch is
\* publish followed by Ok(()), so the loop stops only when publish panics or
\* when the mark fails.
RECURSIVE HubDispatchLoop(_, _, _, _, _)
HubDispatchLoop(t, cs, map, socks, log) ==
  IF cs = <<>>
    THEN {[rows |-> t, socket |-> socks, map |-> map, delivered |-> log, accepted |-> log,
           marks |-> log, res |-> Ok("dispatch", NoArg, 0)]}
    ELSE IF Publish(map, socks, Head(cs)).panic
      THEN {[rows |-> t, socket |-> socks, map |-> map,
             delivered |-> Append(log, Head(cs).commit_id), accepted |-> log,
             marks |-> log, res |-> Err("dispatch", NoArg, PanicMsg)]}
      ELSE {[rows |-> t, socket |-> Publish(map, socks, Head(cs)).socket,
             map |-> Publish(map, socks, Head(cs)).map,
             delivered |-> Append(log, Head(cs).commit_id),
             accepted |-> Append(log, Head(cs).commit_id),
             marks |-> log, res |-> Err("dispatch", NoArg, IoMsg)]}
           \cup HubDispatchLoop(MarkCommitAsDispatched(t, Head(cs).commit_id), Tail(cs),
                                Publish(map, socks, Head(cs)).map,
                                Publish(map, socks, Head(cs)).socket,
                                Append(log, Head(cs).commit_id))

\* A dispatcher that hands the hub the snapshot from its end.
HubDispatcherDispatchNewestFirst(t, map, socks) ==
  {[rows |-> t, socket |-> socks, map |-> map, delivered |-> <<>>, accepted |-> <<>>,
    marks |-> <<>>, res |-> Err("dispatch", NoArg, IoMsg)]}
  \cup HubDispatchLoop(t, OrderByCommitNumberDesc(UndispatchedRows(t)), map, socks, <<>>)

\* Dispatcher::dispatch with the hub as delegate.
HubDispatcherDispatch(t, map, socks) ==
  {[rows |-> t, socket |-> socks, map |-> map, delivered |-> <<>>, accepted |-> <<>>,
    marks |-> <<>>, res |-> Err("dispatch", NoArg, IoMsg)]}
  \cup HubDispatchLoop(t, GetUndispatchedCommits(t), map, socks, <<>>)

\* issue_command of a session the server built with the hub as its delegate,
\* when command.apply gives n events.  A panic of publish unwinds through
\* Dispatcher::dispatch, Client::commit and issue_command: the append stays,
\* the commit being published and those after it stay undispatched, and
\* get_commit is not called.
HubIssueCommand(c, n) ==
  /\ Cardinality(rows) < MaxCommits
  /\ \E id \in NewV4(rows) :
     \E o \in StoreCommit(rows, sqlite_sequence, AttemptOf(client[c], id, n)) :
       /\ sqlite_sequence' = o.seq
       /\ IF o.res.ok
            THEN \E d \in HubDispatcherDispatch(o.rows, aggregate_map, socket) :
                   /\ WithinOutbound(d.socket)
                   /\ rows' = d.rows
                   /\ socket' = d.socket
                   /\ aggregate_map' = d.map
                   /\ delivered' = d.delivered
                   /\ accepted' = d.accepted
                   /\ marked' = marked \cup Range(d.marks)
                   /\ calls' = IF d.res.error = PanicMsg
                                 THEN <<"commit">> \o DispatchCalls(d)
                                 ELSE <<"commit">> \o DispatchCalls(d) \o <<"get_commit">>
                   /\ IF d.res.error = PanicMsg
                        THEN result' = Err("issue_command",
                                           [session |-> c, attempt |-> AttemptOf(client[c], id, n)],
                                           PanicMsg)
                        ELSE \/ result' = [GetCommit(d.rows, id) EXCEPT
                                             !.op = "issue_command",
                                             !.arg = [session |-> c,
                                                      attempt |-> AttemptOf(client[c], id, n)]]
                             \/ result' = Err("issue_command",
                                               [session |-> c, attempt |-> AttemptOf(client[c], id, n)],
                                               IoMsg)
            ELSE /\ rows' = o.rows
                 /\ UNCHANGED <<delivered, accepted, marked, aggregate_map, socket>>
                 /\ calls' = <<"commit">>
                 /\ result' = Err("issue_command",
                                   [session |-> c, attempt |-> AttemptOf(client[c], id, n)],
                                   o.res.error)
  /\ UNCHANGED <<client, SUBSCRIBER_ID>>
  /\ UNCHANGED <<items, builder, worker>>

\* ---------------------------------------------------------- client.rs, builder
\* The stores, delegates and aggregates a builder is given.
Stores == {"sqlite", "memory"}
Delegates == {"mock", "null"}
Aggregates == [id : AggregateIds, version : Versions]

MissingStoreMsg == "Cannot build a client; missing a store."
MissingDispatcherMsg == "Cannot build a client; missing a dispatcher."
MissingAggregateMsg == "Cannot build a client; missing an aggregate id."

\* ClientBuilder::new()
NewBuilder == [store |-> {}, dispatcher |-> {}, aggregate |-> {}]

\* A finish that looks at the dispatcher before the store.
FinishDispatcherFirst(b) ==
  IF b.dispatcher = {} THEN Err("finish", b, MissingDispatcherMsg)
  ELSE IF b.store = {} THEN Err("finish", b, MissingStoreMsg)
  ELSE IF b.aggregate = {} THEN Err("finish", b, MissingAggregateMsg)
  ELSE Ok("finish", b, [store |-> CHOOSE x \in b.store : TRUE,
                        dispatcher |-> CHOOSE x \in b.dispatcher : TRUE,
                        aggregate |-> CHOOSE x \in b.aggregate : TRUE,
                        commit_sequence |-> 0])

\* ClientBuilder::finish: the three is_none() tests in their order, then the
\* Client with the three values unwrapped and commit_sequence: 0.
Finish(b) ==
  IF b.store = {} THEN Err("finish", b, MissingStoreMsg)
  ELSE IF b.dispatcher = {} THEN Err("finish", b, MissingDispatcherMsg)
  ELSE IF b.aggregate = {} THEN Err("finish", b, MissingAggregateMsg)
  ELSE Ok("finish", b, [store |-> CHOOSE x \in b.store : TRUE,
                        dispatcher |-> CHOOSE x \in b.dispatcher : TRUE,
                        aggregate |-> CHOOSE x \in b.aggregate : TRUE,
                        commit_sequence |-> 0])

\* with_aggregate, with_store, with_dispatch_delegate: the field is set to
\* Some of the value, over whatever it held.
WithAggregate(g) ==
  /\ builder' = [builder EXCEPT !.aggregate = {g}]
  /\ result' = Ok("with_aggregate", builder, 0)
  /\ UNCHANGED <<rows, sqlite_sequence, client, delivered, accepted, marked, calls,
                 items, worker>>
  /\ UNCHANGED hub

WithStore(st) ==
  /\ builder' = [builder EXCEPT !.store = {st}]
  /\ result' = Ok("with_store", builder, 0)
  /\ UNCHANGED <<rows, sqlite_sequence, client, delivered, accepted, marked, calls,
                 items, worker>>
  /\ UNCHANGED hub

WithDispatchDelegate(dd) ==
  /\ builder' = [builder EXCEPT !.dispatcher = {dd}]
  /\ result' = Ok("with_dispatch_delegate", builder, 0)
  /\ UNCHANGED <<rows, sqlite_sequence, client, delivered, accepted, marked, calls,
                 items, worker>>
  /\ UNCHANGED hub

\* builder.finish(): finish takes the builder by value, so the next build
\* starts from ClientBuilder::new().
BuilderFinish ==
  /\ result' = Finish(builder)
  /\ builder' = NewBuilder
  /\ UNCHANGED <<rows, sqlite_sequence, client, delivered, accepted, marked, calls,
                 items, worker>>
  /\ UNCHANGED hub

\* ------------------------------------------- commit requests served concurrently
\* ClientBuilder::finish: a client that has replayed nothing.
FreshClient(id) == [aggregate |-> [id |-> id, version |-> 0], commit_sequence |-> 0]

\* A worker between requests that has handed the ids of log to its delegate.
IdleWorker(log) ==
  [pc |-> "idle", session |-> FreshClient("U1"), snapshot |-> <<>>, offered |-> log]

\* The commit route up to client.fetch_latest(aggregate_id).unwrap(): a new
\* client over the shared store replays the aggregate; when get_range fails
\* the request ends there.
WorkerFetchLatest(w, id) ==
  /\ worker[w].pc = "idle"
  /\ Cardinality(rows) < MaxCommits
  /\ \E cs \in GetRange(rows, id, 0, I64Max) :
       /\ worker' = [worker EXCEPT ![w].pc = "commit",
                                   ![w].session = Replay(FreshClient(id), cs)]
       /\ result' = Ok("fetch_latest", [worker |-> w], Replay(FreshClient(id), cs).aggregate)
  /\ calls' = <<"get_range">>
  /\ UNCHANGED <<rows, sqlite_sequence, client, delivered, accepted, marked, items, builder>>
  /\ UNCHANGED hub

\* issue_command up to store.commit(commit_attempt)? in Client::commit: an
\* accepted append is followed by the drain, a rejected one ends the request.
WorkerCommit(w) ==
  /\ worker[w].pc = "commit"
  /\ Cardinality(rows) < MaxCommits
  /\ \E id \in NewV4(rows) :
     \E o \in StoreCommit(rows, sqlite_sequence, AttemptOf(worker[w].session, id, MaxEvents)) :
       /\ rows' = o.rows
       /\ sqlite_sequence' = o.seq
       /\ result' = [o.res EXCEPT !.op = "commit", !.arg = [worker |-> w]]
       /\ worker' = IF o.res.ok
                      THEN [worker EXCEPT ![w].pc = "drain"]
                      ELSE [worker EXCEPT ![w] = IdleWorker(worker[w].offered)]
  /\ calls' = <<"commit">>
  /\ UNCHANGED <<client, delivered, accepted, marked, items, builder>>
  /\ UNCHANGED hub

\* let commits = store.get_undispatched_commits()?
WorkerGetUndispatched(w) ==
  /\ worker[w].pc = "drain"
  /\ \/ /\ worker' = IF GetUndispatchedCommits(rows) = <<>>
                        THEN [worker EXCEPT ![w] = IdleWorker(worker[w].offered)]
                        ELSE [worker EXCEPT ![w].pc = "offer",
                                            ![w].snapshot = GetUndispatchedCommits(rows)]
        /\ result' = Ok("get_undispatched_commits", [worker |-> w], 0)
     \/ /\ worker' = [worker EXCEPT ![w] = IdleWorker(worker[w].offered)]
        /\ result' = Err("get_undispatched_commits", [worker |-> w], IoMsg)
  /\ calls' = <<"get_undispatched_commits">>
  /\ UNCHANGED <<rows, sqlite_sequence, client, delivered, accepted, marked, items, builder>>
  /\ UNCHANGED hub

\* self.dispatch_delegate.dispatch(&commit)? for the commit the loop is at:
\* the delegate accepts it, or refuses it and the drain and the request end.
WorkerOffer(w) ==
  /\ worker[w].pc = "offer"
  /\ LET id == Head(worker[w].snapshot).commit_id
     IN \/ /\ worker' = [worker EXCEPT ![w].pc = "mark",
                                        ![w].offered = Append(worker[w].offered, id)]
           /\ result' = Ok("on_commit", [worker |-> w], 0)
        \/ /\ worker' = [worker EXCEPT ![w] = IdleWorker(Append(worker[w].offered, id))]
           /\ result' = Err("on_commit", [worker |-> w], DelegateMsg)
  /\ calls' = <<>>
  /\ UNCHANGED <<rows, sqlite_sequence, client, delivered, accepted, marked, items, builder>>
  /\ UNCHANGED hub

\* A mark that sets the flag of every commit of the snapshot.
WorkerMarkSnapshot(w) ==
  /\ worker[w].pc = "mark"
  /\ rows' = {IF \E i \in DOMAIN worker[w].snapshot :
                      worker[w].snapshot[i].commit_id = r.commit_id
                 THEN [r EXCEPT !.dispatched = TRUE] ELSE r : r \in rows}
  /\ marked' = marked \cup {Head(worker[w].snapshot).commit_id}
  /\ worker' = IF Tail(worker[w].snapshot) = <<>>
                 THEN [worker EXCEPT ![w] = IdleWorker(worker[w].offered)]
                 ELSE [worker EXCEPT ![w].pc = "offer",
                                     ![w].snapshot = Tail(worker[w].snapshot)]
  /\ result' = Ok("mark_commit_as_dispatched", [worker |-> w], 0)
  /\ calls' = <<"mark_commit_as_dispatched">>
  /\ UNCHANGED <<sqlite_sequence, client, delivered, accepted, items, builder>>
  /\ UNCHANGED hub

\* store.mark_commit_as_dispatched(commit.commit_id)? for the commit the
\* delegate has just accepted: the flag is set and the loop goes to the next
\* commit of the snapshot, or the store fails and the drain and the request
\* end.
WorkerMark(w) ==
  /\ worker[w].pc = "mark"
  /\ \/ /\ rows' = MarkCommitAsDispatched(rows, Head(worker[w].snapshot).commit_id)
        /\ marked' = marked \cup {Head(worker[w].snapshot).commit_id}
        /\ worker' = IF Tail(worker[w].snapshot) = <<>>
                       THEN [worker EXCEPT ![w] = IdleWorker(worker[w].offered)]
                       ELSE [worker EXCEPT ![w].pc = "offer",
                                           ![w].snapshot = Tail(worker[w].snapshot)]
        /\ result' = Ok("mark_commit_as_dispatched", [worker |-> w], 0)
     \/ /\ UNCHANGED <<rows, marked>>
        /\ worker' = [worker EXCEPT ![w] = IdleWorker(worker[w].offered)]
        /\ result' = Err("mark_commit_as_dispatched", [worker |-> w], IoMsg)
  /\ calls' = <<"mark_commit_as_dispatched">>
  /\ UNCHANGED <<sqlite_sequence, client, delivered, accepted, items, builder>>
  /\ UNCHANGED hub

\* ------------------------------------------------------------ store/dynamodb.rs
\* The message of DynamoDB's ConditionalCheckFailedException, and of a request
\* the service did not carry out.
ConditionalCheckFailedMsg == "The conditional request failed"
ThrottledMsg == "ProvisionedThroughputExceededException"

\* The table's primary key, as initialize's key_schema declares it: HASH
\* aggregate_id, RANGE commit_sequence.  No secondary index is created.
PrimaryKey(item) == <<item.aggregate_id, item.commit_sequence>>

\* PutItem with condition_expression attribute_not_exists(commit_sequence):
\* the condition is evaluated on the item the table holds under the primary
\* key of the new item, so it fails exactly when such an item exists.
PutItem(t, a) ==
  IF \E item \in t : PrimaryKey(item) = PrimaryKey(a)
    THEN {[items |-> t, res |-> Err("dynamodb_commit", a, ConditionalCheckFailedMsg)],
          [items |-> t, res |-> Err("dynamodb_commit", a, ThrottledMsg)]}
    ELSE {[items |-> t \cup {a}, res |-> Ok("dynamodb_commit", a, 0)],
          [items |-> t, res |-> Err("dynamodb_commit", a, ThrottledMsg)]}

\* DynamoDbStore::commit: the attempt's fields become the item's attributes
\* and the item is put under the condition.
DynamoDbCommit(a) ==
  /\ Cardinality(items) < MaxCommits
  /\ \E o \in PutItem(items, a) :
       /\ items' = o.items
       /\ result' = o.res
  /\ calls' = <<>>
  /\ UNCHANGED <<rows, sqlite_sequence, client, delivered, accepted, marked, builder, worker>>
  /\ UNCHANGED hub

\* ------------------------------------------------------------ specifications
SessionAggregate == [c \in Clients |-> IF c = "s3" THEN "U2" ELSE "U1"]

Init ==
  /\ rows = {}
  /\ sqlite_sequence = 0
  /\ client = [c \in Clients |-> [aggregate |-> [id |-> SessionAggregate[c], version |-> 0],
                                  commit_sequence |-> 0]]
  /\ delivered = <<>>
  /\ accepted = <<>>
  /\ marked = {}
  /\ calls = <<>>
  /\ result = Ok("initialize", NoArg, 0)
  /\ aggregate_map = [a \in AggregateIds |-> [present |-> FALSE, inner |-> {}]]
  /\ SUBSCRIBER_ID = 1
  /\ socket = [w \in Sockets |-> [pc |-> "new", subscriber_id |-> 0,
                                   rx_open |-> FALSE, outbound |-> <<>>]]
  /\ items = {}
  /\ builder = NewBuilder
  /\ worker = [w \in Workers |-> IdleWorker(<<>>)]

Next ==
  \/ \E a \in CommitAttempt : StoreAppend(a)
  \/ \E id \in AggregateIds, lo \in RangeEnds :
       \E hi \in {h \in RangeEnds : h >= lo} : StoreGetRange(id, lo, hi)
  \/ StoreGetUndispatched
  \/ \E id \in CommitIds : StoreMarkDispatched(id)
  \/ \E id \in CommitIds : StoreGetCommit(id)

\* The store driven directly, as its tests drive it.
Spec == Init /\ [][Next]_vars

\* The store written only by client sessions.
NextClient ==
  \/ \E c \in Clients : FetchLatest(c)
  \/ \E c \in Clients, e \in CommandErrors : IssueCommandRefused(c, e)
  \/ \E c \in Clients, n \in 0..MaxEvents : IssueCommand(c, n)
  \/ Drain

SpecClient == Init /\ [][NextClient]_vars

\* A drain in which the delegate accepted a commit and the store marked it.
DrainProgress == Drain /\ rows' # rows

\* Sessions that issue commands and one drainer.
NextDrain ==
  \/ \E c \in Clients, n \in 0..MaxEvents : IssueCommand(c, n)
  \/ Drain

\* The drainer is run again and again, the delegate in the end accepts what
\* it is offered and the store in the end answers: while a commit is
\* undispatched, a drain that marks one is in the end made.
SpecDrainFair == Init /\ [][NextDrain]_vars /\ WF_rows(DrainProgress)

\* The sessions that replay commits of several events.
ReplaySessions == {"s1", "s2"}

\* Sessions of one aggregate that issue commands of one to MaxReplayEvents
\* events and replay.
NextReplay ==
  \/ \E c \in ReplaySessions, n \in 1..MaxReplayEvents : IssueCommand(c, n)
  \/ \E c \in ReplaySessions : FetchLatestWithin(c, MaxReplayVersion)

SpecReplay == Init /\ [][NextReplay]_vars

\* A client whose owner hands it commit attempts for the client's aggregate
\* directly.
NextCommit ==
  \E a \in {b \in CommitAttempt : b.aggregate_id = SessionAggregate["s1"]} :
    ClientCommitCall(a)

SpecCommit == Init /\ [][NextCommit]_vars

\* The hub alone: connections subscribe, fail and disconnect while commits are
\* handed to the hub's delegate.
NextHub ==
  \/ \E w \in Sockets : SubscribeFetchAdd(w)
  \/ \E w \in Sockets : SubscribeUpsert(w)
  \/ \E w \in Sockets : ForwardEnds(w)
  \/ \E w \in Sockets : Disconnect(w)
  \/ \E cm \in PublishedCommits : HubDispatch(cm)

SpecHub == Init /\ [][NextHub]_vars

\* The sessions and the connections of the server.
ServerSessions == {"s1", "s3"}
ServerSockets == {"w1", "w3"}

\* The server: sessions with the hub as delegate replay and issue commands
\* while connections subscribe, fail and disconnect.
NextServer ==
  \/ \E c \in ServerSessions : FetchLatest(c)
  \/ \E c \in ServerSessions : HubIssueCommand(c, MaxEvents)
  \/ \E w \in ServerSockets : SubscribeFetchAdd(w)
  \/ \E w \in ServerSockets : SubscribeUpsert(w)
  \/ \E w \in ServerSockets : ForwardEnds(w)
  \/ \E w \in ServerSockets : Disconnect(w)

SpecServer == Init /\ [][NextServer]_vars

\* Two threads of the server serve commit requests over one store.
NextWorkers ==
  \/ \E w \in Workers, id \in AggregateIds : WorkerFetchLatest(w, id)
  \/ \E w \in Workers : WorkerCommit(w)
  \/ \E w \in Workers : WorkerGetUndispatched(w)
  \/ \E w \in Workers : WorkerOffer(w)
  \/ \E w \in Workers : WorkerMark(w)

SpecWorkers == Init /\ [][NextWorkers]_vars

\* Sessions handed any aggregate with their command.
NextArgument ==
  \/ \E c \in ReplaySessions, g \in Aggregates, n \in 0..MaxEvents : IssueCommandOn(c, g, n)
  \/ \E c \in ReplaySessions : FetchLatest(c)

SpecArgument == Init /\ [][NextArgument]_vars

\* Clients built one after another.
NextBuilder ==
  \/ \E g \in Aggregates : WithAggregate(g)
  \/ \E st \in Stores : WithStore(st)
  \/ \E dd \in Delegates : WithDispatchDelegate(dd)
  \/ BuilderFinish

SpecBuilder == Init /\ [][NextBuilder]_vars

\* The key/range store appended to.
NextDynamoDb == \E a \in CommitAttempt : DynamoDbCommit(a)

SpecDynamoDb == Init /\ [][NextDynamoDb]_vars

\* The store appended to, marked and read for its undispatched commits
\* directly, while a dispatcher drains it.
NextStore ==
  \/ \E a \in CommitAttempt : StoreAppend(a)
  \/ StoreGetUndispatched
  \/ \E id \in CommitIds : StoreMarkDispatched(id)
  \/ Drain

SpecStore == Init /\ [][NextStore]_vars
\* ------------------------------------------------------------------ claims

\* C1: no two durable commits share a commit_id, whatever appends, accepted
\* or rejected, were made.
C1_CommitIdUnique ==
  \A r1, r2 \in rows : r1 # r2 => r1.commit_id # r2.commit_id

\* Two durable commits, and the last append was rejected for reusing a
\* commit_id.
C1_Witness ==
  /\ Cardinality(rows) >= 2
  /\ result.op = "commit" /\ ~result.ok /\ result.error = CommitIdIdxMsg

\* C2: no two durable commits of one aggregate share a commit_sequence.
C2_CommitSequenceUnique ==
  \A r1, r2 \in rows :
    r1 # r2 /\ r1.aggregate_id = r2.aggregate_id => r1.commit_sequence # r2.commit_sequence

\* Two durable commits of one aggregate, and the last append was rejected for
\* reusing a commit_sequence of that aggregate.
C2_Witness ==
  /\ \E r1, r2 \in rows : r1 # r2 /\ r1.aggregate_id = r2.aggregate_id
  /\ result.op = "commit" /\ ~result.ok /\ result.error = SequenceIdxMsg

\* C3: no two durable commits of one aggregate share an aggregate_version.
C3_AggregateVersionUnique ==
  \A r1, r2 \in rows :
    r1 # r2 /\ r1.aggregate_id = r2.aggregate_id => r1.aggregate_version # r2.aggregate_version

\* Two durable commits of one aggregate, and the last append was rejected for
\* reusing an aggregate_version of that aggregate.
C3_Witness ==
  /\ \E r1, r2 \in rows : r1 # r2 /\ r1.aggregate_id = r2.aggregate_id
  /\ result.op = "commit" /\ ~result.ok /\ result.error = AggregateIdxMsg

\* The conflict that names a key.
ConflictOf(k) ==
  IF k = "commit_sequence" THEN "DuplicateWriteError(CommitSequenceConflict)"
  ELSE IF k = "aggregate_version" THEN "DuplicateWriteError(AggregateVersionConflict)"
  ELSE "DuplicateWriteError(CommitIdConflict)"

\* C4: an append whose attempt collides with a durable commit on exactly one
\* of the three keys is never accepted, and the unique index that rejects it
\* gives the conflict naming that key.
C4_ConflictNamesTheKey ==
  result.op = "commit" =>
    /\ result.ok =>
         TakenKeys({r \in rows : r.commit_number # result.value}, result.arg) = {}
    /\ ~result.ok =>
         \A k \in {"commit_id", "commit_sequence", "aggregate_version"} :
           result.arg = {k} => ErrorType(result.error) = ConflictOf(k)

\* Each of the three single-key collisions has been rejected at a table of two
\* commits; here the one on commit_sequence alone.
C4_Witness ==
  /\ Cardinality(rows) >= 2
  /\ result.op = "commit" /\ ~result.ok /\ result.arg = {"commit_sequence"}

\* C5: a rejected append leaves the durable commits, their fields and their
\* dispatched flags as they were; an accepted append adds exactly one commit,
\* the attempt's, with dispatched = false.
C5_AppendAtomic ==
  [][result'.op = "commit" =>
       IF result'.ok
         THEN /\ Commit(result'.arg, result'.value, FALSE) \notin rows
              /\ rows' = rows \cup {Commit(result'.arg, result'.value, FALSE)}
         ELSE rows' = rows]_vars

\* An append was rejected at a table holding a dispatched and an undispatched
\* commit.
C5_Witness ==
  /\ result.op = "commit" /\ ~result.ok
  /\ \E r1, r2 \in rows : r1.dispatched /\ ~r2.dispatched

\* C6: each accepted append returns a commit_number greater than that of every
\* commit appended before it, and the numbers given are 1, 2, 3, ... whatever
\* appends were rejected in between.
C6_CommitNumberMonotonic ==
  /\ {r.commit_number : r \in rows} = 1..Cardinality(rows)
  /\ result.op = "commit" /\ result.ok =>
       /\ \E r \in rows : r.commit_number = result.value /\ r.commit_id = result.arg.commit_id
       /\ \A r \in rows : r.commit_id # result.arg.commit_id => r.commit_number < result.value

\* The third accepted append returned 3.
C6_Witness ==
  result.op = "commit" /\ result.ok /\ result.value = 3 /\ Cardinality(rows) = 3

\* C7: get_range(aggregate_id, lo, hi) returns exactly the durable commits of
\* the aggregate whose commit_sequence lies in [lo, hi], in strictly ascending
\* commit_sequence order.
C7_GetRangeBySequence ==
  result.op = "get_range" /\ result.ok =>
    /\ Range(result.value) =
         {r \in rows : /\ r.aggregate_id = result.arg[1]
                       /\ r.commit_sequence >= result.arg[2]
                       /\ r.commit_sequence <= result.arg[3]}
    /\ \A i, j \in DOMAIN result.value :
         i < j => result.value[i].commit_sequence < result.value[j].commit_sequence

\* C8: the commit_sequence values stored for one aggregate form a gap-free run
\* from the first accepted one on.
C8_SequencesDense ==
  \A id \in AggregateIds :
    \A r1, r2 \in rows :
      r1.aggregate_id = id /\ r2.aggregate_id = id =>
        \A s \in r1.commit_sequence..r2.commit_sequence :
          \E r \in rows : r.aggregate_id = id /\ r.commit_sequence = s

\* C9: every durable commit has events_count >= 1.
C9_EventsCountPositive ==
  \A r \in rows : r.events_count >= 1

\* C10: get_undispatched returns exactly the durable commits whose dispatched
\* flag is false, of all aggregates, in strictly ascending commit_number order.
C10_UndispatchedInOrder ==
  result.op = "get_undispatched_commits" /\ result.ok =>
    /\ Range(result.value) = {r \in rows : ~r.dispatched}
    /\ Len(result.value) = Cardinality({r \in rows : ~r.dispatched})
    /\ \A i, j \in DOMAIN result.value :
         i < j => result.value[i].commit_number < result.value[j].commit_number

\* get_undispatched returned two commits of different aggregates and left out
\* a dispatched one.
C10_Witness ==
  /\ result.op = "get_undispatched_commits" /\ result.ok
  /\ Len(result.value) = 2
  /\ result.value[1].aggregate_id # result.value[2].aggregate_id
  /\ \E r \in rows : r.dispatched

\* C11: once mark_dispatched(c) has succeeded for a durable commit c, no later
\* get_undispatched returns c, whatever appends and marks came in between.
C11_MarkedNotUndispatched ==
  result.op = "get_undispatched_commits" /\ result.ok =>
    \A i \in DOMAIN result.value : result.value[i].commit_id \notin marked

\* get_undispatched returned a commit and left out a marked one, at a table
\* of three commits.
C11_Witness ==
  /\ result.op = "get_undispatched_commits" /\ result.ok
  /\ Len(result.value) >= 1
  /\ marked # {}
  /\ Cardinality(rows) = 3

\* C12: mark_dispatched is idempotent: at every table the store reaches, a
\* second mark of a commit gives the table the first mark gave; a successful
\* mark leaves a table that a further mark of the same commit does not
\* change, and a successful mark of an already dispatched commit leaves the
\* table as it was.
C12_MarkIdempotent ==
  /\ [](\A id \in CommitIds :
          MarkCommitAsDispatched(MarkCommitAsDispatched(rows, id), id)
            = MarkCommitAsDispatched(rows, id))
  /\ [][result'.op = "mark_commit_as_dispatched" /\ result'.ok =>
          /\ MarkCommitAsDispatched(rows', result'.arg) = rows'
          /\ (\E r \in rows : r.commit_id = result'.arg /\ r.dispatched) => rows' = rows]_vars

\* A mark succeeded on a commit of a table that holds a dispatched and an
\* undispatched commit.
C12_Witness ==
  /\ result.op = "mark_commit_as_dispatched" /\ result.ok
  /\ \E r1, r2 \in rows : r1.commit_id = result.arg /\ r1.dispatched /\ ~r2.dispatched

\* C13: a durable commit with dispatched = true keeps it: no append, mark,
\* drain or read removes the commit or sets its flag back to false.
C13_DispatchedForwardOnly ==
  [][\A r \in rows : r.dispatched => r \in rows']_vars

\* The first commit is dispatched, two more were appended after it and a drain
\* has run.
C13_Witness ==
  /\ result.op = "dispatch"
  /\ Cardinality(rows) = 3
  /\ \E r \in rows : r.commit_number = 1 /\ r.dispatched
  /\ \E r \in rows : ~r.dispatched

\* C14: with one drainer run again and again and a delegate that in the end
\* accepts what it is offered, every durable commit is in the end handed to
\* the delegate and in the end marked dispatched: a mark is only made of a
\* commit handed to the delegate in that drain, and every durable commit is
\* in the end marked and has dispatched = true.
C14_AtLeastOnce ==
  /\ [][marked' \ marked \subseteq Range(delivered')]_vars
  /\ \A id \in CommitIds :
       (\E r \in rows : r.commit_id = id)
         ~> (id \in marked /\ \E r \in rows : r.commit_id = id /\ r.dispatched)

\* Two commits of two aggregates are dispatched; the second was not marked by
\* the drain that followed its append and a later drain, run on its own,
\* delivered and marked it.
C14_Witness ==
  /\ result.op = "dispatch" /\ result.ok
  /\ \A r \in rows : r.dispatched
  /\ \E r1, r2 \in rows :
       /\ r1.commit_number = 1 /\ r2.commit_number = 2
       /\ r1.aggregate_id # r2.aggregate_id
       /\ delivered = <<r2.commit_id>>

\* The commit_number of the durable commit that bears a commit id.
CommitNumberOf(id) == (CHOOSE r \in rows : r.commit_id = id).commit_number

\* A step in which Dispatcher::dispatch ran.
DrainStep == "get_undispatched_commits" \in Range(calls')

\* The commit ids that were undispatched when the drain of a step read its
\* snapshot, by ascending commit_number.
SnapshotIds ==
  LET snapshot == OrderByCommitNumber({r \in rows' : r.commit_id \notin marked})
  IN  [i \in DOMAIN snapshot |-> snapshot[i].commit_id]

\* C15: within one drain the delegate is handed commits in strictly ascending
\* commit_number order, and so none of them twice.
C15_DrainAscending ==
  /\ \A i \in DOMAIN delivered : \E r \in rows : r.commit_id = delivered[i]
  /\ \A i, j \in DOMAIN delivered :
       i < j => CommitNumberOf(delivered[i]) < CommitNumberOf(delivered[j])

\* One drain handed three commits of two aggregates to the delegate.
C15_Witness ==
  /\ Len(delivered) = 3
  /\ \E r1, r2 \in rows : r1.aggregate_id # r2.aggregate_id

\* C16: when the delegate rejects commit c, the drain stops at c and returns
\* the failure: c keeps dispatched = false, what was handed to the delegate
\* is the snapshot up to c, no commit after c in the snapshot is marked, the
\* commits before c are marked, and c is the first commit a later drain
\* offers.
C16_HaltOnRejection ==
  [][/\ DrainStep /\ Len(accepted') < Len(delivered') =>
          /\ result'.op = "dispatch" => ~result'.ok /\ result'.error = DelegateMsg
          /\ delivered' = SubSeq(SnapshotIds, 1, Len(delivered'))
          /\ accepted' = SubSeq(delivered', 1, Len(delivered') - 1)
          /\ \A r \in rows' :
               r.dispatched <=> (r.commit_id \in marked \/ r.commit_id \in Range(accepted'))
          /\ GetUndispatchedCommits(rows')[1].commit_id = delivered'[Len(delivered')]
     /\ DrainStep /\ Len(accepted) < Len(delivered) /\ delivered' # <<>> =>
          delivered'[1] = delivered[Len(delivered)]]_vars

\* A drain handed two commits to the delegate, which accepted the first and
\* rejected the second, while a third commit waited behind them.
C16_Witness ==
  /\ result.op = "dispatch" /\ result.error = DelegateMsg
  /\ Len(delivered) = 2 /\ Len(accepted) = 1
  /\ Cardinality({r \in rows : ~r.dispatched}) = 2

\* C17: a commit that a step sets to dispatched = true was handed to the
\* delegate by the drain of that step, and the delegate accepted it.
C17_MarkAfterAccept ==
  [][\A r \in rows' :
       r.dispatched /\ ~(\E q \in rows : q.commit_id = r.commit_id /\ q.dispatched) =>
         DrainStep /\ r.commit_id \in Range(accepted')]_vars

\* The delegate accepted a commit, which is now dispatched, and rejected the
\* next, which is not.
C17_Witness ==
  /\ Len(delivered) = 2 /\ Len(accepted) = 1
  /\ \E r \in rows : r.commit_id = accepted[1] /\ r.dispatched
  /\ \E r \in rows : r.commit_id = delivered[2] /\ ~r.dispatched

\* C18: a drain hands the delegate no commit that an earlier drain marked
\* dispatched; a drain that comes right after a drain that returned success
\* hands the delegate nothing and fails only if the store fails.
C18_NoRedeliveryOfMarked ==
  [][/\ DrainStep => \A i \in DOMAIN delivered' : delivered'[i] \notin marked
     /\ result.op = "dispatch" /\ result.ok /\ DrainStep /\ calls'[1] = "get_undispatched_commits" =>
          /\ delivered' = <<>>
          /\ result'.ok \/ result'.error = IoMsg]_vars

\* A drain run on its own found every one of two commits marked by earlier
\* drains, handed nothing to the delegate and returned success.
C18_Witness ==
  /\ result.op = "dispatch" /\ result.ok
  /\ delivered = <<>>
  /\ Cardinality(rows) >= 2
  /\ \A r \in rows : r.dispatched /\ r.commit_id \in marked

\* C19: when command.apply fails, issue_command returns the command's error as
\* it is and calls no store method: the table, the rowid counter, every
\* session's aggregate and watermark and the dispatcher's record are as they
\* were.
C19_RefusalTouchesNothing ==
  [][result'.op = "issue_command" /\ "refusal" \in DOMAIN result'.arg =>
       /\ ~result'.ok
       /\ result'.error = result'.arg.refusal
       /\ calls' = <<>>
       /\ UNCHANGED <<rows, sqlite_sequence, client, delivered, accepted, marked>>]_vars

\* A command refused at a session whose aggregate has an undispatched durable
\* commit.
C19_Witness ==
  /\ result.op = "issue_command" /\ result.error \in CommandErrors
  /\ calls = <<>>
  /\ \E r \in rows :
       ~r.dispatched /\ r.aggregate_id = client[result.arg.session].aggregate.id

\* A durable commit of the session's aggregate holds the version or the
\* sequence number the session's next attempt will bear.
SessionWouldConflict(c) ==
  \E r \in rows :
    /\ r.aggregate_id = client[c].aggregate.id
    /\ \/ r.aggregate_version = client[c].aggregate.version
       \/ r.commit_sequence = client[c].commit_sequence + 1

\* C20: when the store rejects the append of issue_command with a conflict,
\* issue_command has called commit once and nothing else, returns that
\* conflict, runs no drain and leaves the table, the rowid counter and every
\* session's aggregate and watermark as they were.
C20_NoRetryOnConflict ==
  [][result'.op = "issue_command" /\ "attempt" \in DOMAIN result'.arg
       /\ SessionWouldConflict(result'.arg.session) =>
         /\ ~result'.ok
         /\ \/ result'.error = IoMsg
            \/ ErrorType(result'.error) \in
                 {"DuplicateWriteError(CommitSequenceConflict)",
                  "DuplicateWriteError(AggregateVersionConflict)"}
         /\ result'.error # IoMsg => result'.error \in UniqueViolations(rows, result'.arg.attempt)
         /\ calls' = <<"commit">>
         /\ UNCHANGED <<rows, sqlite_sequence, client, delivered, accepted, marked>>]_vars

\* A session's append was rejected with a conflict on the commit_sequence
\* while an undispatched commit waited in the table.
C20_Witness ==
  /\ result.op = "issue_command" /\ result.error = SequenceIdxMsg
  /\ calls = <<"commit">>
  /\ \E r \in rows : ~r.dispatched

\* C21: when issue_command of a session succeeds with an attempt of version v
\* and n events, a fetch_latest of the same session right after it returns an
\* aggregate of version v + n.
C21_RoundTrip ==
  [][/\ result.op = "issue_command" /\ result.ok
      /\ result'.op = "fetch_latest" /\ result'.ok
      /\ result'.arg.session = result.arg.session =>
        result'.value.version =
          result.arg.attempt.aggregate_version + result.arg.attempt.events_count]_vars

\* The events of the durable commits of an aggregate, counted.
RECURSIVE EventsOf(_)
EventsOf(S) ==
  IF S = {} THEN 0
  ELSE LET r == CHOOSE x \in S : TRUE IN r.events_count + EventsOf(S \ {r})

\* C22: every fetch_latest leaves the session with each durable commit of its
\* aggregate folded exactly once, so the version it returns is the number of
\* events of these commits, and a fetch_latest right after a fetch_latest of
\* the same session returns the same aggregate.
C22_ReplayExactlyOnce ==
  [][/\ result'.op = "fetch_latest" /\ result'.ok =>
          result'.value.version =
            EventsOf({r \in rows : r.aggregate_id = result'.value.id})
     /\ result.op = "fetch_latest" /\ result.ok
          /\ result'.op = "fetch_latest" /\ result'.ok
          /\ result'.arg.session = result.arg.session =>
            result'.value = result.value]_vars

\* A durable commit is the one a twin of session c made: it bears the
\* aggregate, the version and the sequence number of c's next attempt.
TwinCommitted(c) ==
  \E r \in rows :
    /\ r.aggregate_id = client[c].aggregate.id
    /\ r.aggregate_version = client[c].aggregate.version
    /\ r.commit_sequence = client[c].commit_sequence + 1

\* C23: the log never holds two commits of one aggregate with the same
\* version or the same sequence number; when two sessions stand at the same
\* aggregate, version and watermark and one of them appends, the other one's
\* attempt collides from then on; and an issue_command of a session whose
\* twin has appended is rejected with CommitSequenceConflict or
\* AggregateVersionConflict (unless the storage fails) and adds no row.
C23_ConcurrentIssuers ==
  /\ [](\A r, q \in rows :
          r # q /\ r.aggregate_id = q.aggregate_id =>
            /\ r.aggregate_version # q.aggregate_version
            /\ r.commit_sequence # q.commit_sequence)
  /\ [][result'.op = "issue_command" /\ "attempt" \in DOMAIN result'.arg =>
        /\ result'.ok =>
              \A d \in Clients : client[d] = client[result'.arg.session] =>
                /\ ~TwinCommitted(d)
                /\ TwinCommitted(d)'
        /\ TwinCommitted(result'.arg.session) =>
              /\ ~result'.ok
              /\ {r.commit_id : r \in rows'} = {r.commit_id : r \in rows}
              /\ \/ result'.error = IoMsg
                 \/ /\ result'.error \in {SequenceIdxMsg, AggregateIdxMsg}
                    /\ ErrorType(result'.error) \in
                         {"DuplicateWriteError(CommitSequenceConflict)",
                          "DuplicateWriteError(AggregateVersionConflict)"}]_vars

\* Sessions s1 and s2 replayed the first commit of their aggregate to the same
\* version and watermark, one of them appended the second commit, and the
\* other's issue_command was rejected with a conflict.
C23_Witness ==
  /\ client["s1"] = client["s2"]
  /\ client["s1"].commit_sequence = 1
  /\ Cardinality({r \in rows : r.aggregate_id = client["s1"].aggregate.id}) = 2
  /\ TwinCommitted("s1") /\ TwinCommitted("s2")
  /\ result.op = "issue_command" /\ ~result.ok
  /\ result.error \in {SequenceIdxMsg, AggregateIdxMsg}

\* The row of commit id in table t.
RowOf(t, id) == CHOOSE r \in t : r.commit_id = id

\* The append of Client::commit made the attempt's commit durable in this step.
Appended ==
  /\ result'.op = "client_commit"
  /\ \A r \in rows : r.commit_id # result'.arg.attempt.commit_id
  /\ \E r \in rows' : r.commit_id = result'.arg.attempt.commit_id

\* C24: Client::commit returns Ok exactly when its append made the commit
\* durable, and then returns the commit_number AUTOINCREMENT assigned to the
\* row, whatever the inline drain did; the drain ran after the append; the
\* commit is marked dispatched only after the delegate accepted it, and when
\* the delegate accepted all it was given and every mark was written, the
\* delegate has been called with the commit's id.
C24_InlineDispatchBestEffort ==
  [][result'.op = "client_commit" =>
       LET a == result'.arg.attempt IN
       /\ result'.ok <=> Appended
       /\ Appended =>
            /\ result'.value = sqlite_sequence'
            /\ result'.value = NextRowid(sqlite_sequence)
            /\ RowOf(rows', a.commit_id).commit_number = result'.value
            /\ CommitAttempt \cap {[k \in DOMAIN a |-> RowOf(rows', a.commit_id)[k]]} = {a}
            /\ calls'[1] = "commit" /\ calls'[2] = "get_undispatched_commits"
            /\ RowOf(rows', a.commit_id).dispatched =>
                  /\ a.commit_id \in Range(accepted')
                  /\ a.commit_id \in Range(delivered')
            /\ (/\ delivered' # <<>>
                /\ accepted' = delivered'
                /\ \A i \in 1..Len(accepted') : RowOf(rows', accepted'[i]).dispatched) =>
                  /\ delivered'[Len(delivered')] = a.commit_id
                  /\ RowOf(rows', a.commit_id).dispatched]_vars

\* Client::commit returned the commit_number of a commit that is durable and
\* undispatched: the delegate was called with it and refused it.
C24_Witness ==
  /\ result.op = "client_commit" /\ result.ok
  /\ \E r \in rows : /\ r.commit_id = result.arg.attempt.commit_id
                     /\ r.commit_number = result.value
                     /\ ~r.dispatched
  /\ delivered = <<result.arg.attempt.commit_id>>
  /\ accepted = <<>>
\* C25: when the drain of issue_command hands the hub a commit whose aggregate
\* has no entry in the subscriber map, the hub returns success and sends no
\* message for it, and the drain goes on to call mark_commit_as_dispatched
\* for it.
C25_NoEntryIsNoOp ==
  [][result'.op = "issue_command" /\ DrainStep =>
       \A i \in 1..Len(delivered') :
         ~aggregate_map[RowOf(rows', delivered'[i]).aggregate_id].present =>
           /\ result'.error # PanicMsg
           /\ delivered'[i] \in Range(accepted')
           /\ \A w \in Sockets : \A k \in 1..Len(socket'[w].outbound) :
                 socket'[w].outbound[k].commit_id # delivered'[i]]_vars

\* The hub's delegate was called with a commit in this step.
HubDispatchStep == result'.op = "hub_dispatch"

\* C26 as stated: when the hub's dispatch(c) runs, every subscriber registered
\* for c.aggregate_id has exactly one message for c added to its channel, and
\* the channel of every other connection is as it was.
C26_FanOutToRegistered ==
  [][HubDispatchStep /\ result'.ok =>
       \A w \in Sockets :
         IF w \in Subscribers(aggregate_map, result'.arg.aggregate_id)
           THEN socket'[w].outbound = Append(socket[w].outbound, result'.arg)
           ELSE socket'[w] = socket[w]]_vars

\* C26, amended: when the hub's dispatch(c) runs, every subscriber registered
\* for c.aggregate_id whose channel still has its receiver has exactly one
\* message for c added to its channel, and the channel of every other
\* connection (a subscriber of another aggregate, a subscriber whose receiver
\* is gone, a connection not or no longer registered) is as it was.
C26_FanOutToLive ==
  [][HubDispatchStep /\ result'.ok =>
       \A w \in Sockets :
         IF w \in Subscribers(aggregate_map, result'.arg.aggregate_id) /\ socket[w].rx_open
           THEN socket'[w].outbound = Append(socket[w].outbound, result'.arg)
           ELSE socket'[w] = socket[w]]_vars

\* Two subscribers of one aggregate each hold the one message of the commit
\* just published, and the subscriber of the other aggregate holds none.
C26_Witness ==
  /\ result.op = "hub_dispatch" /\ result.ok
  /\ result.arg.aggregate_id = SocketAggregate["w1"]
  /\ \A w \in Sockets : socket[w].pc = "subscribed"
  /\ socket["w1"].outbound = <<result.arg>>
  /\ socket["w2"].outbound = <<result.arg>>
  /\ socket["w3"].outbound = <<>>

\* C27: when the send to a subscriber fails during publish, the hub's dispatch
\* returns success, the other subscribers of the aggregate get the message,
\* and the failing subscriber is no longer in the subscriber map.
C27_SendFailureDropsSubscriber ==
  [][HubDispatchStep =>
       \A w \in Subscribers(aggregate_map, result'.arg.aggregate_id) :
         ~socket[w].rx_open =>
           /\ result'.ok
           /\ \A v \in Subscribers(aggregate_map, result'.arg.aggregate_id) :
                 socket[v].rx_open =>
                   socket'[v].outbound = Append(socket[v].outbound, result'.arg)
           /\ w \notin Subscribers(aggregate_map', result'.arg.aggregate_id)]_vars

\* C28: disconnect takes the disconnecting connection's subscriber id, and
\* nothing else, out of the inner map of its aggregate, and keeps the outer
\* entries and the inner maps of the other aggregates; a commit published
\* later reaches the subscribers that remain and leaves every disconnected
\* connection as it was.
C28_DisconnectFrame ==
  [][/\ result'.op = "disconnect" =>
          LET w == result'.arg.socket IN
          /\ w \in Subscribers(aggregate_map, SocketAggregate[w])
          /\ aggregate_map'[SocketAggregate[w]].inner =
               {p \in aggregate_map[SocketAggregate[w]].inner :
                  p.id # socket[w].subscriber_id}
          /\ Subscribers(aggregate_map', SocketAggregate[w]) =
               Subscribers(aggregate_map, SocketAggregate[w]) \ {w}
          /\ \A a \in AggregateIds :
               /\ aggregate_map'[a].present = aggregate_map[a].present
               /\ a # SocketAggregate[w] => aggregate_map'[a] = aggregate_map[a]
     /\ HubDispatchStep /\ result'.ok =>
          \A w \in Sockets :
            /\ socket[w].pc = "disconnected" => socket'[w] = socket[w]
            /\ socket[w].pc = "subscribed" /\ socket[w].rx_open
                 /\ SocketAggregate[w] = result'.arg.aggregate_id =>
                   socket'[w].outbound = Append(socket[w].outbound, result'.arg)]_vars

\* One of two subscribers of an aggregate has disconnected, and the commit
\* published after that is on the channel of the other and not on the channel
\* of the disconnected one.
C28_Witness ==
  /\ result.op = "hub_dispatch" /\ result.ok
  /\ socket["w1"].pc = "disconnected" /\ socket["w1"].outbound = <<>>
  /\ socket["w2"].pc = "subscribed" /\ socket["w2"].outbound = <<result.arg>>
  /\ Subscribers(aggregate_map, SocketAggregate["w1"]) = {"w2"}
  /\ socket["w3"].pc = "subscribed"
  /\ Subscribers(aggregate_map, SocketAggregate["w3"]) = {"w3"}

\* C29: under every interleaving of the steps of concurrent subscribe calls,
\* no two connections hold the same subscriber id, the ids are drawn in
\* increasing order, an upsert adds its connection to the inner map and
\* replaces no other connection's sender, and a disconnect removes its own
\* connection's sender only.
C29_UniqueSubscriberIds ==
  /\ [](\A w, v \in Sockets :
          /\ socket[w].pc # "new" => socket[w].subscriber_id < SUBSCRIBER_ID
          /\ w # v /\ socket[w].pc # "new" /\ socket[v].pc # "new" =>
                socket[w].subscriber_id # socket[v].subscriber_id)
  /\ [](\A w \in Sockets : \A a \in AggregateIds :
          w \in Subscribers(aggregate_map, a) <=>
            socket[w].pc = "subscribed" /\ a = SocketAggregate[w])
  /\ [][/\ SUBSCRIBER_ID' >= SUBSCRIBER_ID
        /\ result'.op = "fetch_add" =>
             /\ SUBSCRIBER_ID' > SUBSCRIBER_ID
             /\ \A v \in Sockets : socket[v].pc # "new" =>
                   socket'[result'.arg.socket].subscriber_id > socket[v].subscriber_id
        /\ result'.op = "subscribe" =>
             Subscribers(aggregate_map', SocketAggregate[result'.arg.socket]) =
               Subscribers(aggregate_map, SocketAggregate[result'.arg.socket])
                 \cup {result'.arg.socket}
        /\ result'.op = "disconnect" =>
             Subscribers(aggregate_map', SocketAggregate[result'.arg.socket]) =
               Subscribers(aggregate_map, SocketAggregate[result'.arg.socket])
                 \ {result'.arg.socket}]_vars

\* Connection w1 drew its id first and is still before its upsert, while w2,
\* which drew the next id, is already in the inner map of the same aggregate.
C29_Witness ==
  /\ socket["w1"].pc = "assigned" /\ socket["w2"].pc = "subscribed"
  /\ socket["w1"].subscriber_id < socket["w2"].subscriber_id
  /\ Subscribers(aggregate_map, SocketAggregate["w1"]) = {"w2"}

C31_DynamoDbUniqueKeys ==
  \A i, j \in items :
    i # j =>
      /\ i.commit_id # j.commit_id
      /\ i.aggregate_id = j.aggregate_id => i.aggregate_version # j.aggregate_version
\* C32: finish returns a client exactly when the builder holds a store, a
\* dispatcher and an aggregate; without a store it returns the missing-store
\* error whatever else is missing, with a store and no dispatcher the
\* missing-dispatcher error, with both and no aggregate the missing-aggregate
\* error; and the client it returns holds the values given and watermark 0.
C32_FinishRequiresAll ==
  [][result'.op = "finish" =>
       /\ result'.arg = builder
       /\ result'.ok <=> builder.store # {} /\ builder.dispatcher # {} /\ builder.aggregate # {}
       /\ builder.store = {} => result'.error = MissingStoreMsg
       /\ builder.store # {} /\ builder.dispatcher = {} =>
            result'.error = MissingDispatcherMsg
       /\ builder.store # {} /\ builder.dispatcher # {} /\ builder.aggregate = {} =>
            result'.error = MissingAggregateMsg
       /\ result'.ok =>
            /\ result'.value.commit_sequence = 0
            /\ builder.store = {result'.value.store}
            /\ builder.dispatcher = {result'.value.dispatcher}
            /\ builder.aggregate = {result'.value.aggregate}]_vars

\* finish was called on a builder that had a delegate and an aggregate and no
\* store, and returned the missing-store error.
C32_Witness ==
  /\ result.op = "finish" /\ result.error = MissingStoreMsg
  /\ result.arg.store = {}
  /\ result.arg.dispatcher # {}
  /\ result.arg.aggregate # {}
C34_AttemptFromArgument ==
  [][result'.op = "issue_command" =>
       LET a == result'.arg.attempt
       IN /\ a.aggregate_id = result'.arg.aggregate.id
          /\ a.aggregate_version = result'.arg.aggregate.version
          /\ a.commit_sequence = client[result'.arg.session].commit_sequence + 1
          /\ a.events_count = result'.arg.events]_vars
\* A commit the delegate accepted in the latest drain is still undispatched:
\* its mark failed.
MarkFailedOn(acc, t) ==
  \E i \in DOMAIN acc : \E r \in t : r.commit_id = acc[i] /\ ~r.dispatched

\* C35: when the delegate accepts commit c and the mark of c then fails, the
\* drain stops at c and returns the store's error, c is the last commit the
\* drain handed over and keeps dispatched = false, no commit after c is
\* marked, and the next drain that hands anything to the delegate hands it c
\* first, so that the delegate sees the commit id of c a second time.
C35_RedeliveryAfterFailedMark ==
  [][/\ DrainStep /\ MarkFailedOn(accepted', rows') =>
          /\ result'.op = "dispatch" => ~result'.ok /\ result'.error = IoMsg
          /\ accepted' = delivered'
          /\ delivered' = SubSeq(SnapshotIds, 1, Len(delivered'))
          /\ \A r \in rows' :
               r.dispatched <=>
                 \/ r.commit_id \in marked
                 \/ r.commit_id \in Range(SubSeq(accepted', 1, Len(accepted') - 1))
          /\ GetUndispatchedCommits(rows')[1].commit_id = accepted'[Len(accepted')]
     /\ MarkFailedOn(accepted, rows) /\ DrainStep /\ delivered' # <<>> =>
          delivered'[1] = accepted[Len(accepted)]]_vars

\* A drain run on its own handed two commits to the delegate, which accepted
\* both; the first was marked, the mark of the second failed, and a third
\* commit waited behind them.
C35_Witness ==
  /\ result.op = "dispatch" /\ result.error = IoMsg
  /\ Len(delivered) = 2 /\ accepted = delivered
  /\ \E r \in rows : r.commit_id = accepted[1] /\ r.dispatched
  /\ \E r \in rows : r.commit_id = accepted[2] /\ ~r.dispatched
  /\ Cardinality({r \in rows : ~r.dispatched}) = 2
\* C36: with two drains running at once over one store, a commit is marked
\* dispatched only after a drain has handed it to the delegate, no commit
\* leaves the log, and no step changes a field of a durable commit other than
\* setting dispatched.
C36_ConcurrentDrainsLoseNothing ==
  /\ [](\A r \in rows :
          r.dispatched => \E w \in Workers : r.commit_id \in Range(worker[w].offered))
  /\ [][/\ \A r \in rows : r \in rows' \/ [r EXCEPT !.dispatched = TRUE] \in rows'
        /\ Cardinality(rows') \in {Cardinality(rows), Cardinality(rows) + 1}
        /\ \A r \in rows' \ rows :
             r.dispatched => \E q \in rows : r = [q EXCEPT !.dispatched = TRUE]]_vars

\* Both workers handed the same commit to the delegate: one worker delivered
\* and marked two commits, and the other, whose snapshot was read before the
\* first of them was marked, has delivered that commit too and is about to
\* mark it again.
C36_Witness ==
  \E r1, r2 \in rows :
    /\ r1.commit_number < r2.commit_number
    /\ r1.dispatched /\ r2.dispatched
    /\ worker["d1"].offered = <<r1.commit_id, r2.commit_id>>
    /\ worker["d2"].offered = <<r1.commit_id>>
    /\ worker["d2"].pc = "mark"
\* C37: issue_command leaves the session's aggregate and watermark as they
\* were, also when it succeeds; so when a session's issue_command has
\* succeeded and its next call is again issue_command, the second attempt
\* bears the version and the sequence number of the first and is rejected
\* with CommitSequenceConflict or AggregateVersionConflict (unless the storage
\* fails), and the log is left as the first call left it.
C37_NoAdvanceOnSuccess ==
  [][/\ result'.op = "issue_command" => client' = client
     /\ result.op = "issue_command" /\ result.ok
          /\ result'.op = "issue_command" /\ "attempt" \in DOMAIN result'.arg
          /\ result'.arg.session = result.arg.session =>
            /\ result'.arg.attempt.aggregate_id = result.arg.attempt.aggregate_id
            /\ result'.arg.attempt.aggregate_version = result.arg.attempt.aggregate_version
            /\ result'.arg.attempt.commit_sequence = result.arg.attempt.commit_sequence
            /\ ~result'.ok
            /\ \/ result'.error = IoMsg
               \/ ErrorType(result'.error) \in
                    {"DuplicateWriteError(CommitSequenceConflict)",
                     "DuplicateWriteError(AggregateVersionConflict)"}
            /\ rows' = rows
            /\ \E r \in rows : r.commit_id = result.arg.attempt.commit_id]_vars

\* Session s3, the only one of its aggregate, has never replayed; its first
\* issue_command made the one commit of the log and its second was rejected
\* with a conflict on that commit's version or sequence number.
C37_Witness ==
  /\ result.op = "issue_command" /\ ~result.ok
  /\ result.arg.session = "s3"
  /\ result.error \in {SequenceIdxMsg, AggregateIdxMsg}
  /\ client["s3"].commit_sequence = 0 /\ client["s3"].aggregate.version = 0
  /\ Cardinality(rows) = 1
  /\ \E r \in rows :
       /\ r.aggregate_id = SessionAggregate["s3"]
       /\ r.aggregate_version = result.arg.attempt.aggregate_version
       /\ r.commit_sequence = result.arg.attempt.commit_sequence
       /\ r.commit_id # result.arg.attempt.commit_id
====
